---- MODULE Spec2Model ----
(***************************************************************************)
(* vitellary: a Game session attached to a VVVVVV process.  The model      *)
(* follows src/game.rs (the macOS build, whose attach scans memory and     *)
(* performs one update) and src/game/mod.rs (the portable build, whose     *)
(* attach only resolves the address); Game::update is the same in both.    *)
(*                                                                         *)
(* Spec is a Game attached and updated; ScanSpec is attach over the        *)
(* memories the signature scan can meet; TimerSpec is the timer            *)
(* conversion over the timers a read can decode; MainSpec is src/main.rs:  *)
(* the polling loop, the bounded channel and the client threads;           *)
(* ChannelSpec is the same loop with Updates already buffered.             *)
(*                                                                         *)
(* A u32 is held as a pair <<hi, lo>> of 16-bit limbs, because the values  *)
(* the program uses (u32::MAX, the wrapped nanosecond product) do not fit  *)
(* TLC's integers.  An address (usize) is held as a pair     *)
(* <<hi, lo>> of 30-bit limbs for the same reason.                         *)
(***************************************************************************)
EXTENDS Integers, Sequences, FiniteSets, TLC

VARIABLES
    pc,               \* "start" | "attached" | "no_handle" | "not_found" | "failed"
                      \* | "panicked" | "exited"
    memory,           \* the target's memory over the scanned range, at attach
    overflow_checks,  \* build profile: arithmetic overflow panics (debug) or wraps
    game_object_addr, \* Game.game_object_addr
    old,              \* Game.old
    cur,              \* Game.cur
    game,             \* the GameObject decoded by the latest successful read
    result,           \* what the latest Game::update call returned
    phase,            \* history: how many updates have succeeded in the session
    run_fired,        \* history: events reported for the range state is now in
    run_entry,        \* history: state entered that range on a poll (old outside it)
    transitions,      \* history: the last two of NewGame and Reset reported
    channel,          \* main: the Updates buffered in the bounded channel
    clients,          \* main: the client threads of the server
    polls             \* main: iterations of the polling loop followed so far

vars == <<pc, memory, overflow_checks, game_object_addr, old, cur, game, result,
          phase, run_fired, run_entry, transitions, channel, clients, polls>>

\* what main adds to a Game
main_vars == <<channel, clients, polls>>

\* the Game and the process it reads
game_vars == <<pc, memory, overflow_checks, game_object_addr, old, cur, game, result,
               phase, run_fired, run_entry, transitions>>

----------------------------------------------------------------------------
(* u32 arithmetic on 16-bit limbs *)

LIMB == 2^16

U32(n) == <<n \div LIMB, n % LIMB>>

U32_MAX == <<LIMB - 1, LIMB - 1>>

\* the four bytes of a u32, least significant first
Bytes(a) == <<a[2] % 256, a[2] \div 256, a[1] % 256, a[1] \div 256>>

\* the wrapped product and the overflow flag from the column sums c[k] of
\* the long multiplication (c[k] weighs 256^k)
MulColumns(c) ==
    LET low  == c[1] + 256 * c[2]
        high == c[3] + 256 * c[4] + (low \div LIMB)
    IN  [val |-> <<high % LIMB, low % LIMB>>,
         overflow |-> (high \div LIMB) + c[5] + c[6] + c[7] > 0]

\* a * b in u32, by long multiplication on bytes: the wrapped product and
\* whether the full product needed more than 32 bits
MulBytes(x, y) ==
    MulColumns(<< x[1] * y[1],
                  x[1] * y[2] + x[2] * y[1],
                  x[1] * y[3] + x[2] * y[2] + x[3] * y[1],
                  x[1] * y[4] + x[2] * y[3] + x[3] * y[2] + x[4] * y[1],
                  x[2] * y[4] + x[3] * y[3] + x[4] * y[2],
                  x[3] * y[4] + x[4] * y[3],
                  x[4] * y[4] >>)

MulU32(a, b) == MulBytes(Bytes(a), Bytes(b))

\* u64::from(x), for the values the model draws (below 2^31)
U64From(x) == x[1] * LIMB + x[2]

----------------------------------------------------------------------------
(* Constants of the program *)

PLAYING_STATES == <<0, 4, 5>>

\* a table whose first range runs on into the range of Vitellary
SPLITS_Overlapping == <<
    [event |-> "Verdigris",       lo |-> 3006, hi |-> 3020],
    [event |-> "Vermilion",       lo |-> 3060, hi |-> 3065],
    [event |-> "Victoria",        lo |-> 3040, hi |-> 3045],
    [event |-> "Violet",          lo |-> 4091, hi |-> 4099],
    [event |-> "Vitellary",       lo |-> 3020, hi |-> 3025],
    [event |-> "IntermissionOne", lo |-> 3085, hi |-> 3087],
    [event |-> "IntermissionTwo", lo |-> 3080, hi |-> 3082],
    [event |-> "GameComplete",    lo |-> 3503, hi |-> 3509] >>

SPLITS == <<
    [event |-> "Verdigris",       lo |-> 3006, hi |-> 3011],
    [event |-> "Vermilion",       lo |-> 3060, hi |-> 3065],
    [event |-> "Victoria",        lo |-> 3040, hi |-> 3045],
    [event |-> "Violet",          lo |-> 4091, hi |-> 4099],
    [event |-> "Vitellary",       lo |-> 3020, hi |-> 3025],
    [event |-> "IntermissionOne", lo |-> 3085, hi |-> 3087],
    [event |-> "IntermissionTwo", lo |-> 3080, hi |-> 3082],
    [event |-> "GameComplete",    lo |-> 3503, hi |-> 3509] >>

\* State::new(): the sentinel snapshot
State_new == [room |-> <<U32_MAX, U32_MAX>>, gamestate |-> U32_MAX, state |-> U32_MAX]

\* Duration::ZERO
Duration_ZERO == [secs |-> 0, nanos |-> 0]

NANOS_PER_SEC == 1000000000

FRAME_RATE == 30

----------------------------------------------------------------------------
(* Game::update, src/game.rs:148-227 and src/game/mod.rs:85-150 *)

\* PLAYING_STATES.contains(&x); every entry is below 2^16
IsPlaying(x) == x[1] = 0 /\ \E i \in 1..Len(PLAYING_STATES) : PLAYING_STATES[i] = x[2]

\* range.contains(&x), an unsigned comparison against both ends; both ends
\* are below 2^16
Contains(range, x) == x[1] = 0 /\ range.lo <= x[2] /\ x[2] <= range.hi

\* the State built from the decoded GameObject
StateOf(g) == [room |-> <<g.room_x, g.room_y>>, gamestate |-> g.gamestate, state |-> g.state]

\* History with old left alone by the shift
History_KeepOld(o, c, state) ==
    IF o.state = U32_MAX
    THEN [old |-> state, cur |-> state]
    ELSE [old |-> o, cur |-> state]

\* History without the sentinel test: always a shift
History_AlwaysShift(o, c, state) == [old |-> c, cur |-> state]

\* the history update: both fields on the sentinel, a shift otherwise
History(o, c, state) ==
    IF o.state = U32_MAX
    THEN [old |-> state, cur |-> state]
    ELSE [old |-> c, cur |-> state]

\* Duration::new(secs, nanos): whole seconds of nanos carry into secs.
\* nanos is a u32 given as its half and its lowest bit, which fit the
\* checker's integers
Duration_carry(secs, half, parity) ==
    [secs  |-> secs + (half \div (NANOS_PER_SEC \div 2)),
     nanos |-> (half % (NANOS_PER_SEC \div 2)) * 2 + parity]

Duration_new(secs, nanos) ==
    Duration_carry(secs, nanos[1] * (LIMB \div 2) + (nanos[2] \div 2), nanos[2] % 2)

\* the timer conversion from the u32 product prod; it panics on overflow
\* when the build checks overflow and wraps otherwise
TimerProduct(g, prod, checks) ==
    [panic |-> checks /\ prod.overflow,
     time  |-> Duration_new(U64From(g.hours) * 3600 + U64From(g.minutes) * 60
                                + U64From(g.seconds),
                            prod.val)]

\* TimerToDuration with the nanoseconds of a frame rounded up
TimerToDuration_RoundUp(g, checks) ==
    TimerProduct(g, MulU32(U32((NANOS_PER_SEC \div FRAME_RATE) + 1), g.frames), checks)

TimerToDuration(g, checks) ==
    TimerProduct(g, MulU32(U32(NANOS_PER_SEC \div FRAME_RATE), g.frames), checks)

\* the timers the target's memory can hold, as (frames, seconds, minutes, hours)
BaseTimer == <<U32(15), U32(2), U32(1), U32(0)>>

\* a second timer, and a frame count whose product with 33_333_333 does
\* not fit a u32
OtherTimers ==
    {<<U32(0), U32(3), U32(1), U32(0)>>, <<U32(129), U32(0), U32(0), U32(0)>>}

ZeroTimer == <<U32(0), U32(0), U32(0), U32(0)>>

TimerFields(t) == [frames |-> t[1], seconds |-> t[2], minutes |-> t[3], hours |-> t[4]]

\* TimerToDuration of every timer that can be read, computed once
TimerTable ==
    [t \in {BaseTimer, ZeroTimer} \cup OtherTimers, checks \in BOOLEAN |->
        TimerToDuration(TimerFields(t), checks)]

Converted(g, checks) == TimerTable[<<g.frames, g.seconds, g.minutes, g.hours>>, checks]

\* FindSplit as a containment test: old.state is not looked at
RECURSIVE FindSplit_Containment(_, _, _)
FindSplit_Containment(i, o, c) ==
    IF i > Len(SPLITS) THEN "None"
    ELSE IF Contains(SPLITS[i], c.state) THEN SPLITS[i].event
    ELSE FindSplit_Containment(i + 1, o, c)

\* SPLITS.into_iter().find_map(..) from entry i on: the first range cur.state
\* is in and old.state is not
RECURSIVE FindSplit(_, _, _)
FindSplit(i, o, c) ==
    IF i > Len(SPLITS) THEN "None"
    ELSE IF Contains(SPLITS[i], c.state) /\ ~Contains(SPLITS[i], o.state)
    THEN SPLITS[i].event
    ELSE FindSplit(i + 1, o, c)

\* SplitEvent that suppresses state 3006 in every room
SplitEvent_AnyRoom(o, c) ==
    IF c.state = U32(3006) THEN "None" ELSE FindSplit(1, o, c)

\* SplitEvent without the state 3006 case
SplitEvent_NoRoomCheck(o, c) == FindSplit(1, o, c)

\* the split event of a poll without a gamestate transition
SplitEvent(o, c) ==
    IF c.state = U32(3006) /\ c.room # <<U32(115), U32(100)>>
    THEN "None"
    ELSE FindSplit(1, o, c)

\* Classify with the decoded time kept for NewGame
Classify_KeepTime(o, c, time) ==
    IF IsPlaying(c.gamestate) /\ ~IsPlaying(o.gamestate)
    THEN [time |-> time, event |-> "NewGame"]
    ELSE IF ~IsPlaying(c.gamestate) /\ IsPlaying(o.gamestate)
    THEN [time |-> time, event |-> "Reset"]
    ELSE [time |-> time, event |-> SplitEvent(o, c)]

\* Classify with the time zeroed for Reset as for NewGame
Classify_ResetZero(o, c, time) ==
    IF IsPlaying(c.gamestate) /\ ~IsPlaying(o.gamestate)
    THEN [time |-> Duration_ZERO, event |-> "NewGame"]
    ELSE IF ~IsPlaying(c.gamestate) /\ IsPlaying(o.gamestate)
    THEN [time |-> Duration_ZERO, event |-> "Reset"]
    ELSE [time |-> time, event |-> SplitEvent(o, c)]

\* Classify with the split ranges tried before the gamestate transitions
Classify_SplitFirst(o, c, time) ==
    IF SplitEvent(o, c) # "None"
    THEN [time |-> time, event |-> SplitEvent(o, c)]
    ELSE IF IsPlaying(c.gamestate) /\ ~IsPlaying(o.gamestate)
    THEN [time |-> Duration_ZERO, event |-> "NewGame"]
    ELSE IF ~IsPlaying(c.gamestate) /\ IsPlaying(o.gamestate)
    THEN [time |-> time, event |-> "Reset"]
    ELSE [time |-> time, event |-> "None"]

\* Classify with NewGame for every change of gamestate into a playing one
Classify_AnyChange(o, c, time) ==
    IF IsPlaying(c.gamestate) /\ o.gamestate # c.gamestate
    THEN [time |-> Duration_ZERO, event |-> "NewGame"]
    ELSE IF ~IsPlaying(c.gamestate) /\ IsPlaying(o.gamestate)
    THEN [time |-> time, event |-> "Reset"]
    ELSE [time |-> time, event |-> SplitEvent(o, c)]

\* the Update returned for the history (o, c) and the decoded time
Classify(o, c, time) ==
    IF IsPlaying(c.gamestate) /\ ~IsPlaying(o.gamestate)
    THEN [time |-> Duration_ZERO, event |-> "NewGame"]
    ELSE IF ~IsPlaying(c.gamestate) /\ IsPlaying(o.gamestate)
    THEN [time |-> time, event |-> "Reset"]
    ELSE [time |-> time, event |-> SplitEvent(o, c)]

\* the end of Game::update once the history h is updated and the timer
\* converted to t
Finish(h, t) ==
    IF t.panic
    THEN [kind |-> "Panic", old |-> h.old, cur |-> h.cur,
          update |-> [time |-> Duration_ZERO, event |-> "None"]]
    ELSE [kind |-> "Ok", old |-> h.old, cur |-> h.cur,
          update |-> Classify(h.old, h.cur, t.time)]

\* one call of Game::update on the fields (o, c); read.ok is whether
\* copy_address succeeded and read.obj the GameObject it delivered
UpdateOutcome(o, c, read, checks) ==
    IF ~read.ok
    THEN [kind |-> "Err", old |-> o, cur |-> c,
          update |-> [time |-> Duration_ZERO, event |-> "None"]]
    ELSE Finish(History(o, c, StateOf(read.obj)), Converted(read.obj, checks))

----------------------------------------------------------------------------
(* Addresses and the signature scan of Game::attach, src/game.rs:119-146 *)

PAGE == 2^30

\* a + n on addresses held as <<hi, lo>> with 30-bit limbs
AddrAdd(a, n) == <<a[1] + ((a[2] + n) \div PAGE), (a[2] + n) % PAGE>>

AddrLt(a, b) == a[1] < b[1] \/ (a[1] = b[1] /\ a[2] < b[2])

\* 0x1_0000_0000 and 0x1_4000_0000
SCAN_START == <<4, 0>>
SCAN_END == <<5, 0>>

OFFSET_GAMETIME == 184

BUF_LEN == 4096

OVERLAP == 40

\* linux.rs: the fixed address of the game object
ADDRESS == 8736192

\* ChunkOffset with a step that is not a multiple of 8
ChunkOffset_Misaligned(k) == k * (BUF_LEN - OVERLAP + 4)

\* step_by(buf.len() - 0x28): the k-th chunk's distance from the first
ChunkOffset(k) == k * (BUF_LEN - OVERLAP)

\* the address of the k-th chunk the loop visits
ChunkAddress(k) == AddrAdd(SCAN_START, ChunkOffset(k))

\* chunks the model's memory describes; every later chunk is unreadable
NumChunks == 2

Zeros(n) == [i \in 1..n |-> 0]

\* one element of the pattern: a literal byte, or "."
Lit(b) == [dot |-> FALSE, byte |-> b]
Dot == [dot |-> TRUE, byte |-> 0]

\* the regex 00:00\x00{18}.nowhere, element by element
PATTERN ==
    [i \in 1..5 |-> Lit(<<48, 48, 58, 48, 48>>[i])]
    \o [i \in 1..18 |-> Lit(0)]
    \o <<Dot>>
    \o [i \in 1..7 |-> Lit(<<110, 111, 119, 104, 101, 114, 101>>[i])]

\* "." of regex::bytes::Regex with Unicode mode on (the default) and no s
\* flag, on one byte: a UTF-8 scalar value of one byte other than \n
DotMatches(b) == b < 128 /\ b # 10

\* whether the pattern matches exactly the byte string bytes
MatchesAt(bytes) ==
    /\ Len(bytes) = Len(PATTERN)
    /\ \A i \in 1..Len(PATTERN) :
        IF PATTERN[i].dot THEN DotMatches(bytes[i]) ELSE bytes[i] = PATTERN[i].byte

\* the bytes of the two string buffers as the target lays them out: "00:00",
\* 18 zero bytes, the byte w, "nowhere"
Signature(w) ==
    <<48, 48, 58, 48, 48>> \o Zeros(18) \o <<w>>
        \o <<110, 111, 119, 104, 101, 114, 101>>

\* the memory is zero except where a signature lies: mem.sigs gives each
\* one's offset from SCAN_START and its byte w; mem.readable[k] is whether
\* copy_address succeeds on chunk k.  A match can only start where a
\* signature starts, since no other byte of the memory is "0".
\* MatchStarts with a buffer as long as the step: chunks that do not overlap
MatchStarts_NoOverlap(mem, k) ==
    {s.pos - ChunkOffset(k) :
        s \in {t \in mem.sigs :
                  /\ t.pos >= ChunkOffset(k)
                  /\ t.pos - ChunkOffset(k) + Len(PATTERN) <= BUF_LEN - OVERLAP
                  /\ MatchesAt(Signature(t.wild))}}

\* MatchStarts is the set of m.start() candidates of chunk k: the signatures
\* lying wholly inside the 4096 bytes read, which the pattern matches
MatchStarts(mem, k) ==
    {s.pos - ChunkOffset(k) :
        s \in {t \in mem.sigs :
                  /\ t.pos >= ChunkOffset(k)
                  /\ t.pos - ChunkOffset(k) + Len(PATTERN) <= BUF_LEN
                  /\ MatchesAt(Signature(t.wild))}}

\* Leftmost giving the last match of the buffer
Leftmost_Last(starts) == CHOOSE m \in starts : \A n \in starts : m >= n

\* regex.find: the leftmost match
Leftmost(starts) == CHOOSE m \in starts : \A n \in starts : m <= n

\* what chunk k gives: whether copy_address succeeds, whether regex.find
\* matches in it, and m.start() of the leftmost match
ChunkRead(mem, k, starts) ==
    [readable |-> mem.readable[k],
     found    |-> starts # {},
     start    |-> IF starts = {} THEN 0 ELSE Leftmost(starts)]

Chunks(mem) == [k \in 0..(NumChunks - 1) |-> ChunkRead(mem, k, MatchStarts(mem, k))]

\* ScanFrom ending the scan at the first chunk that cannot be read
RECURSIVE ScanFrom_StopOnFail(_, _)
ScanFrom_StopOnFail(chunks, k) ==
    IF k >= NumChunks \/ ~AddrLt(ChunkAddress(k), SCAN_END) \/ ~chunks[k].readable
    THEN [found |-> FALSE, addr |-> <<0, 0>>]
    ELSE IF chunks[k].found
    THEN [found |-> TRUE,
          addr  |-> AddrAdd(ChunkAddress(k),
                            chunks[k].start - (chunks[k].start % 8) - OFFSET_GAMETIME)]
    ELSE ScanFrom_StopOnFail(chunks, k + 1)

\* the loop of attach from chunk k on: the first readable chunk with a match
RECURSIVE ScanFrom(_, _)
ScanFrom(chunks, k) ==
    IF k >= NumChunks \/ ~AddrLt(ChunkAddress(k), SCAN_END)
    THEN [found |-> FALSE, addr |-> <<0, 0>>]
    ELSE IF chunks[k].readable /\ chunks[k].found
    THEN [found |-> TRUE,
          addr  |-> AddrAdd(ChunkAddress(k),
                            chunks[k].start - (chunks[k].start % 8) - OFFSET_GAMETIME)]
    ELSE ScanFrom(chunks, k + 1)

----------------------------------------------------------------------------
(* What the target's memory can hold when it is read *)

AllReadable == [k \in 0..(NumChunks - 1) |-> TRUE]

\* the byte between the two buffers in the memories below
WILD == 14

Sig(p, w) == [pos |-> p, wild |-> w]

\* the memories a session is attached to: one without a signature and one
\* with a signature 13 bytes into the range
SessionMemories ==
    {[sigs |-> {}, readable |-> AllReadable],
     [sigs |-> {Sig(13, WILD)}, readable |-> AllReadable]}

MkObject(s, t) ==
    [room_x |-> s.room[1], room_y |-> s.room[2], state |-> s.state,
     gamestate |-> s.gamestate,
     frames |-> t[1], seconds |-> t[2], minutes |-> t[3], hours |-> t[4]]

TheRoom == <<U32(115), U32(100)>>

CoreInputs ==
    {[room |-> r, gamestate |-> U32(g), state |-> s] :
        r \in {TheRoom, <<U32(115), U32(99)>>},
        g \in {0, 7},
        s \in {U32(3005), U32(3006), U32(3007), U32_MAX}}

GamestateInputs ==
    {[room |-> TheRoom, gamestate |-> g, state |-> U32(3005)] :
        g \in {U32(4), U32(5), U32_MAX}}

RangeInputs ==
    {[room |-> TheRoom, gamestate |-> U32(0), state |-> U32(s)] :
        s \in {3011, 3012, 3060, 3040, 4091, 3020, 3085, 3080, 3503}}

SnapshotInputs == CoreInputs \cup GamestateInputs \cup RangeInputs \cup {State_new}

\* the snapshots read with the other timers too
TimedInputs ==
    {[room |-> TheRoom, gamestate |-> U32(g), state |-> U32(3005)] : g \in {0, 7}}

ObjectInputs ==
    {MkObject(s, BaseTimer) : s \in SnapshotInputs}
    \cup {MkObject(s, t) : s \in TimedInputs, t \in OtherTimers}

\* the zeroed read buffer
ZeroState == [room |-> <<U32(0), U32(0)>>, gamestate |-> U32(0), state |-> U32(0)]

ZeroObject == MkObject(ZeroState, ZeroTimer)

Reads ==
    {[ok |-> FALSE, obj |-> ZeroObject]}
    \cup {[ok |-> TRUE, obj |-> g] : g \in ObjectInputs}

----------------------------------------------------------------------------
(* History of the session, kept for the properties below *)

\* the index in SPLITS of the first range from entry i on holding x, 0 when
\* none does
RECURSIVE HistRangeFrom(_, _)
HistRangeFrom(i, x) ==
    IF i > Len(SPLITS) THEN 0
    ELSE IF Contains(SPLITS[i], x) THEN i
    ELSE HistRangeFrom(i + 1, x)

HistRangeTable == [s \in SnapshotInputs |-> HistRangeFrom(1, s.state)]

HistRangeOf(s) == HistRangeTable[s]

\* the count of a run of polls inside range r (0: none) after one more poll
HistCount(r, same, hit, fired) ==
    IF r = 0 THEN 0
    ELSE IF same THEN (IF fired + hit > 2 THEN 2 ELSE fired + hit)
    ELSE hit

\* whether event is the event of range r
HistHit(r, event) == IF r # 0 /\ event = SPLITS[r].event THEN 1 ELSE 0

\* events of the range now holding state, reported since state entered it
\* (counted to 2): before is cur as the poll found it, after as it left it
HistRunFired(before, after, event, fired) ==
    HistCount(HistRangeOf(after), HistRangeOf(before) = HistRangeOf(after),
              HistHit(HistRangeOf(after), event), fired)

\* whether the run of polls inside the range now holding state began with
\* an entry: a poll that left old.state outside the range and cur.state in it
HistRunEntry(before, o, c, entry) ==
    IF HistRangeOf(c) = 0 THEN FALSE
    ELSE IF HistRangeOf(before) = HistRangeOf(c) THEN entry
    ELSE ~Contains(SPLITS[HistRangeOf(c)], o.state)

\* the last two of NewGame and Reset reported by the session, oldest first,
\* after an update that decoded snapshot c and reported event; <<"excluded">>
\* once a decoded state field was u32::MAX
HistTransitions(tr, c, event) ==
    IF tr = <<"excluded">> \/ c.state = U32_MAX THEN <<"excluded">>
    ELSE IF event \notin {"NewGame", "Reset"} THEN tr
    ELSE IF tr = <<>> THEN <<event>>
    ELSE <<tr[Len(tr)], event>>

\* fresh: no update succeeded yet; attach_read: only the update attach makes;
\* first_read: one poll succeeded and attach read nothing; first_poll: one
\* poll succeeded after the update attach made; later: more polls succeeded
HistPhase(ph, by_attach) ==
    IF by_attach THEN "attach_read"
    ELSE IF ph = "fresh" THEN "first_read"
    ELSE IF ph = "attach_read" THEN "first_poll"
    ELSE "later"

----------------------------------------------------------------------------
(* main: the channel and the client threads, src/main.rs:67-105 *)

\* crossbeam_channel::bounded::<Update>(10)
CHANNEL_CAP == 10

\* client threads the model lets the server spawn
MaxClients == 2

\* iterations of the polling loop the model follows
MaxPolls == 3

\* an Update in the channel, with the iteration of the loop that made it
\* (history)
Buffered(update, serial) ==
    [time |-> update.time, event |-> update.event, serial |-> serial]

\* a connection not yet made.  pc is where the thread stands: "none" |
\* "recv" | "time" | "event" | "closed"; update is what recv returned last;
\* sent lists the messages written since; taken is history, the iterations
\* whose Updates the thread has received
NoClient ==
    [pc |-> "none", update |-> Buffered([time |-> Duration_ZERO, event |-> "None"], 0),
     sent |-> <<>>, taken |-> {}]

\* "{}" of an unsigned integer: its decimal digits
RECURSIVE Digits(_)
Digits(n) == IF n < 10 THEN <<n>> ELSE Append(Digits(n \div 10), n % 10)

\* "{:0w}": the digits d, zero-padded on the left to w at least
Padded(d, w) == IF Len(d) >= w THEN d ELSE Zeros(w - Len(d)) \o d

\* a text message: a command word and, for setgametime, the digits before
\* and after the "."
Text(word, secs, nanos) == [command |-> word, secs |-> secs, nanos |-> nanos]

\* format!("setgametime {}.{:09}", time.as_secs(), time.subsec_nanos())
SetGameTime(time) == Text("setgametime", Digits(time.secs), Padded(Digits(time.nanos), 9))

\* EventCommand with Reset among the splits
EventCommand_ResetSplits(event) ==
    Text(CASE event = "NewGame" -> "start"
           [] OTHER -> "split",
         <<>>, <<>>)

\* the match on the event, main.rs:87-98
EventCommand(event) ==
    Text(CASE event = "NewGame" -> "start"
           [] event \in {"Verdigris", "Vermilion", "Victoria", "Violet", "Vitellary",
                         "IntermissionOne", "IntermissionTwo", "GameComplete"} -> "split"
           [] event = "Reset" -> "reset",
         <<>>, <<>>)

----------------------------------------------------------------------------
(* The session *)

\* no Game yet: old and cur hold what the Game will be constructed with
Fresh ==
    /\ overflow_checks \in BOOLEAN
    /\ game_object_addr = <<0, 0>>
    /\ old = State_new
    /\ cur = State_new
    /\ result = [kind |-> "none", time |-> Duration_ZERO, event |-> "None"]
    /\ phase = "fresh"
    /\ run_fired = 0
    /\ run_entry = FALSE
    /\ transitions = <<>>
    /\ channel = <<>>
    /\ clients = [c \in 1..MaxClients |-> NoClient]
    /\ polls = 0

\* before attach
Init ==
    /\ pc = "start"
    /\ memory \in SessionMemories
    /\ game = ZeroObject
    /\ Fresh

\* the effect of one Game::update call on the session
Updated(r, read, by_attach) ==
    /\ old' = r.old
    /\ cur' = r.cur
    /\ game' = IF read.ok THEN read.obj ELSE game
    /\ result' = [kind |-> r.kind, time |-> r.update.time, event |-> r.update.event]
    /\ phase' = IF r.kind = "Ok" THEN HistPhase(phase, by_attach) ELSE phase
    /\ run_fired' = IF r.kind = "Ok"
                    THEN HistRunFired(cur, r.cur, r.update.event, run_fired)
                    ELSE run_fired
    /\ run_entry' = IF r.kind = "Ok"
                    THEN HistRunEntry(cur, r.old, r.cur, run_entry)
                    ELSE run_entry
    /\ transitions' = IF r.kind = "Ok"
                      THEN HistTransitions(transitions, r.cur, r.update.event)
                      ELSE transitions

\* Game::attach of src/game.rs once the scan has ended with f: on a match,
\* construct the Game with two sentinel States and update it once (outcome r)
Attached(f, r, read) ==
    IF f.found
    THEN /\ Updated(r, read, TRUE)
         /\ pc' = CASE r.kind = "Ok" -> "attached"
                    [] r.kind = "Err" -> "failed"
                    [] OTHER -> "panicked"
         /\ game_object_addr' = f.addr
         /\ UNCHANGED overflow_checks
    ELSE /\ pc' = "not_found"
         /\ UNCHANGED <<overflow_checks, game_object_addr, old, cur, game,
                        result, phase, run_fired, run_entry, transitions>>

\* Game::attach of src/game.rs: open the handle, scan, construct, update
AttachScan ==
    /\ pc = "start"
    /\ \E handle_ok \in BOOLEAN, read \in Reads :
        IF handle_ok
        THEN Attached(ScanFrom(Chunks(memory), 0),
                      UpdateOutcome(State_new, State_new, read, overflow_checks), read)
        ELSE /\ pc' = "no_handle"
             /\ UNCHANGED <<overflow_checks, game_object_addr, old, cur, game,
                            result, phase, run_fired, run_entry, transitions>>
    /\ UNCHANGED <<memory, main_vars>>

\* Game::attach of src/game/mod.rs: resolve the address, construct the Game
\* with two sentinel States, read nothing
AttachImp ==
    /\ pc = "start"
    /\ \E found \in BOOLEAN :
        IF found
        THEN /\ pc' = "attached"
             /\ game_object_addr' = <<0, ADDRESS>>
             /\ old' = State_new
             /\ cur' = State_new
             /\ UNCHANGED <<overflow_checks, game, result, phase, run_fired, run_entry,
                            transitions>>
        ELSE /\ pc' = "failed"
             /\ UNCHANGED <<overflow_checks, game_object_addr, old, cur, game,
                            result, phase, run_fired, run_entry, transitions>>
    /\ UNCHANGED <<memory, main_vars>>

\* the effect of one Game::update call that ended with r
Polled(r, read) ==
    /\ Updated(r, read, FALSE)
    /\ pc' = IF r.kind = "Panic" THEN "panicked" ELSE pc
    /\ UNCHANGED <<overflow_checks, game_object_addr>>

\* one call of Game::update on the attached Game.  The loop of main ends
\* on the first error (MainPoll below); Game::update itself may be called
\* again after one, and here it is
Poll ==
    /\ pc = "attached"
    /\ \E read \in Reads :
        Polled(UpdateOutcome(old, cur, read, overflow_checks), read)
    /\ UNCHANGED <<memory, main_vars>>

Next == AttachScan \/ AttachImp \/ Poll

Spec == Init /\ [][Next]_vars

----------------------------------------------------------------------------
(* main: the polling loop and the client threads, src/main.rs:66-110 *)

\* what the loop reads: three snapshots, and a failed read
MainReads ==
    {[ok |-> FALSE, obj |-> ZeroObject]}
    \cup {[ok |-> TRUE,
           obj |-> MkObject([room |-> TheRoom, gamestate |-> U32(gs[1]), state |-> U32(gs[2])],
                            BaseTimer)] :
             gs \in {<<7, 3005>>, <<0, 3005>>, <<0, 3006>>}}

\* main after attach (as game/mod.rs leaves the Game), with the channel
\* made and the server listening
MainInit ==
    /\ pc = "attached"
    /\ memory = [sigs |-> {}, readable |-> AllReadable]
    /\ game_object_addr = <<0, ADDRESS>>
    /\ overflow_checks \in BOOLEAN
    /\ old = State_new
    /\ cur = State_new
    /\ game = ZeroObject
    /\ result = [kind |-> "none", time |-> Duration_ZERO, event |-> "None"]
    /\ phase = "fresh"
    /\ run_fired = 0
    /\ run_entry = FALSE
    /\ transitions = <<>>
    /\ channel = <<>>
    /\ clients = [c \in 1..MaxClients |-> NoClient]
    /\ polls = 0

\* the loop with a blocking send in place of try_send: an iteration that has
\* an Update waits while the channel is full
MainPolled_Blocking(r, read) ==
    /\ r.kind = "Ok" => Len(channel) < CHANNEL_CAP
    /\ Updated(r, read, FALSE)
    /\ pc' = CASE r.kind = "Ok" -> pc
                [] r.kind = "Err" -> "exited"
                [] OTHER -> "panicked"
    /\ channel' = IF r.kind = "Ok"
                  THEN Append(channel, Buffered(r.update, polls + 1))
                  ELSE channel
    /\ polls' = polls + 1
    /\ UNCHANGED <<memory, overflow_checks, game_object_addr, clients>>

\* one iteration of the loop whose Game::update ended with r: an error ends
\* main, an Update is offered to the channel with try_send and dropped when
\* the channel is full
MainPolled(r, read) ==
    /\ Updated(r, read, FALSE)
    /\ pc' = CASE r.kind = "Ok" -> pc
                [] r.kind = "Err" -> "exited"
                [] OTHER -> "panicked"
    /\ channel' = IF r.kind = "Ok" /\ Len(channel) < CHANNEL_CAP
                  THEN Append(channel, Buffered(r.update, polls + 1))
                  ELSE channel
    /\ polls' = polls + 1
    /\ UNCHANGED <<memory, overflow_checks, game_object_addr, clients>>

MainPoll ==
    /\ pc = "attached"
    /\ polls < MaxPolls
    /\ \E read \in MainReads :
        MainPolled(UpdateOutcome(old, cur, read, overflow_checks), read)

\* a connection comes in: a thread is spawned and tungstenite::accept
\* succeeds or ends the thread
Accept ==
    /\ pc = "attached"
    /\ \E c \in DOMAIN clients, ok \in BOOLEAN :
        /\ clients[c].pc = "none"
        /\ clients' = [clients EXCEPT ![c].pc = IF ok THEN "recv" ELSE "closed"]
    /\ UNCHANGED <<game_vars, channel, polls>>

\* a receive that leaves the Update in the channel for the other receivers,
\* as a broadcast would
Recv_Broadcast ==
    /\ pc = "attached"
    /\ channel # <<>>
    /\ \E c \in DOMAIN clients :
        /\ clients[c].pc = "recv"
        /\ Head(channel).serial \notin clients[c].taken
        /\ clients' = [clients EXCEPT ![c] =
                          [pc |-> "time", update |-> Head(channel), sent |-> <<>>,
                           taken |-> @.taken \cup {Head(channel).serial}]]
    /\ UNCHANGED <<game_vars, channel, polls>>

\* receiver.recv(): blocks while the channel is empty; the Update received
\* leaves the channel, which all the threads' receivers share
Recv ==
    /\ pc = "attached"
    /\ channel # <<>>
    /\ \E c \in DOMAIN clients :
        /\ clients[c].pc = "recv"
        /\ clients' = [clients EXCEPT ![c] =
                          [pc |-> "time", update |-> Head(channel), sent |-> <<>>,
                           taken |-> @.taken \cup {Head(channel).serial}]]
    /\ channel' = Tail(channel)
    /\ UNCHANGED <<game_vars, polls>>

\* the first write_message: the setgametime command; an error ends the thread
SendTime ==
    /\ pc = "attached"
    /\ \E c \in DOMAIN clients, ok \in BOOLEAN :
        /\ clients[c].pc = "time"
        /\ clients' = [clients EXCEPT ![c] =
              IF ok
              THEN [pc     |-> IF @.update.event # "None" THEN "event" ELSE "recv",
                    update |-> @.update,
                    sent   |-> Append(@.sent, SetGameTime(@.update.time)),
                    taken  |-> @.taken]
              ELSE [@ EXCEPT !.pc = "closed"]]
    /\ UNCHANGED <<game_vars, channel, polls>>

\* the second write_message, made if update.event is Some
SendEvent ==
    /\ pc = "attached"
    /\ \E c \in DOMAIN clients, ok \in BOOLEAN :
        /\ clients[c].pc = "event"
        /\ clients' = [clients EXCEPT ![c] =
              IF ok
              THEN [pc     |-> "recv",
                    update |-> @.update,
                    sent   |-> Append(@.sent, EventCommand(@.update.event)),
                    taken  |-> @.taken]
              ELSE [@ EXCEPT !.pc = "closed"]]
    /\ UNCHANGED <<game_vars, channel, polls>>

MainNext == MainPoll \/ Accept \/ Recv \/ SendTime \/ SendEvent

MainSpec == MainInit /\ [][MainNext]_vars

\* --------------------------------------------------------------------------
\* The channel with a backlog: main after Backlog iterations that all read
\* the same snapshot while no client was connected, so that the channel holds
\* their Updates, and one client may connect.  The iterations before the
\* ones followed from here are numbered backwards from -1.
\* --------------------------------------------------------------------------

\* Updates already buffered when the model begins to follow the loop
Backlog == 9

SteadyState == [room |-> TheRoom, gamestate |-> U32(7), state |-> U32(3005)]

SteadyRead == [ok |-> TRUE, obj |-> MkObject(SteadyState, BaseTimer)]

ChannelInit ==
    /\ pc = "attached"
    /\ memory = [sigs |-> {}, readable |-> AllReadable]
    /\ game_object_addr = <<0, ADDRESS>>
    /\ overflow_checks \in BOOLEAN
    /\ old = SteadyState
    /\ cur = SteadyState
    /\ game = SteadyRead.obj
    /\ LET r == UpdateOutcome(SteadyState, SteadyState, SteadyRead, overflow_checks)
       IN  /\ result = [kind |-> r.kind, time |-> r.update.time, event |-> r.update.event]
           /\ channel = [i \in 1..Backlog |-> Buffered(r.update, i - Backlog - 1)]
    /\ phase = "later"
    /\ run_fired = 0
    /\ run_entry = FALSE
    /\ transitions = <<>>
    /\ clients = <<NoClient>>
    /\ polls = 0

ChannelSpec == ChannelInit /\ [][MainNext]_vars

----------------------------------------------------------------------------
(* Game::attach of src/game.rs over the memories the scan can meet *)

\* where a signature starts, counted from the start of a chunk's step: at
\* the start, off the 8-byte grid, and across the end of the step
SigOffsets == {0, 1, 8, 9, 10, 13, 4025, 4026, 4040, 4055}

SigPositions == {ChunkOffset(k) + d : k \in 0..(NumChunks - 1), d \in SigOffsets}

\* where the signatures of a memory holding two of them start
PairPositions == {ChunkOffset(k) + d : k \in 0..(NumChunks - 1), d \in {8, 13, 4026, 4055}}

SigSets ==
    {{}}
    \cup {{Sig(p, WILD)} : p \in SigPositions}
    \cup {{Sig(pq[1], WILD), Sig(pq[2], WILD)} :
             pq \in {x \in PairPositions \X PairPositions : x[2] - x[1] >= Len(PATTERN)}}

\* one signature with each value of the byte between the buffers, and the
\* signature sets above under every readability of the chunks
Memories ==
    {[sigs |-> S, readable |-> r] : S \in SigSets, r \in [0..(NumChunks - 1) -> BOOLEAN]}
    \cup {[sigs |-> {Sig(13, w)}, readable |-> AllReadable] : w \in 0..255}

ScanInit ==
    /\ pc = "start"
    /\ memory \in Memories
    /\ game = ZeroObject
    /\ Fresh

ScanNext == AttachScan

ScanSpec == ScanInit /\ [][ScanNext]_vars

----------------------------------------------------------------------------
(* The timer conversion on its own, src/game.rs:166-169 and                  *)
(* src/game/common.rs:49-62                                                  *)

FrameInputs ==
    {U32(f) : f \in {0, 1, 15, 29, 30, 31, 59, 60, 128, 129, 130, 65535}} \cup {U32_MAX}

\* timers as (frames, seconds, minutes, hours)
TimerInputs ==
    {<<f, U32(s), U32(m), U32(h)>> :
        f \in FrameInputs, s \in {0, 2, 59}, m \in {0, 1, 59}, h \in {0, 1}}

\* a GameObject has been read and decoded; its timer is to be converted
TimerInit ==
    /\ pc = "decoded"
    /\ memory = [sigs |-> {}, readable |-> AllReadable]
    /\ game \in {MkObject(ZeroState, t) : t \in TimerInputs}
    /\ Fresh

\* the conversion: it gives the Duration, or panics
Converting(t) ==
    /\ pc' = IF t.panic THEN "panicked" ELSE "converted"
    /\ result' = [kind  |-> IF t.panic THEN "Panic" ELSE "Ok",
                  time  |-> IF t.panic THEN Duration_ZERO ELSE t.time,
                  event |-> "None"]

Convert ==
    /\ pc = "decoded"
    /\ Converting(TimerToDuration(game, overflow_checks))
    /\ UNCHANGED <<memory, overflow_checks, game_object_addr, old, cur, game, phase,
                   run_fired, run_entry, transitions, main_vars>>

TimerNext == Convert

TimerSpec == TimerInit /\ [][TimerNext]_vars

----------------------------------------------------------------------------
(* Vocabulary of the properties.  previous and current are the fields old    *)
(* and cur as the latest update left them; result is what it returned.       *)

PLAYING == {U32(0), U32(4), U32(5)}

TransitionEvents == {"NewGame", "Reset"}

SplitEvents == {SPLITS[i].event : i \in 1..Len(SPLITS)}

Succeeded == result.kind = "Ok"

TransitionIn == cur.gamestate \in PLAYING /\ old.gamestate \notin PLAYING

TransitionOut == cur.gamestate \notin PLAYING /\ old.gamestate \in PLAYING

\* the poll reached split matching
NoTransition == ~TransitionIn /\ ~TransitionOut

\* state 3006 outside room (115, 100)
Transient3006 == cur.state = U32(3006) /\ cur.room # <<U32(115), U32(100)>>

\* the timer value decoded by the latest read
DecodedTime == Converted(game, overflow_checks).time

\* state entered range i on the latest update
Entered(i) == Contains(SPLITS[i], cur.state) /\ ~Contains(SPLITS[i], old.state)

\* state stayed inside range i on the latest update
Stayed(i) == Contains(SPLITS[i], cur.state) /\ Contains(SPLITS[i], old.state)

----------------------------------------------------------------------------
\* C1: a successful poll with current.gamestate in PLAYING and
\* previous.gamestate outside it returns NewGame with elapsed time zero,
\* whatever timer, state and room were decoded.
C1_NewGameZero ==
    (Succeeded /\ TransitionIn) =>
        (result.event = "NewGame" /\ result.time = Duration_ZERO)

\* previous.gamestate = 7, current.gamestate = 0, a non-zero decoded timer
C1_Witness ==
    /\ Succeeded
    /\ old.gamestate = U32(7) /\ cur.gamestate = U32(0)
    /\ DecodedTime # Duration_ZERO
    /\ result.event = "NewGame"

\* C2: a successful poll with current.gamestate outside PLAYING and
\* previous.gamestate in it returns Reset with the time decoded on this poll.
C2_ResetDecodedTime ==
    (Succeeded /\ TransitionOut) =>
        (result.event = "Reset" /\ result.time = DecodedTime)

\* previous.gamestate = 0, current.gamestate = 7, the timer at 1 min 2 s
\* and 15 frames
C2_Witness ==
    /\ Succeeded
    /\ old.gamestate = U32(0) /\ cur.gamestate = U32(7)
    /\ result.event = "Reset"
    /\ result.time = [secs |-> 62, nanos |-> 15 * 33333333]

\* C3: a successful poll that leaves previous.state and current.state in the
\* same split range, without a gamestate transition, reports no event; and
\* while state stays inside one range over consecutive polls the event of
\* that range is reported at most once.
C3_NoRefire ==
    /\ (Succeeded /\ NoTransition /\ \E i \in 1..Len(SPLITS) : Stayed(i))
            => result.event = "None"
    /\ run_fired <= 1

\* 3006 -> 3007 inside Verdigris, after Verdigris was reported on entry
C3_Witness ==
    /\ Succeeded /\ NoTransition
    /\ old.state = U32(3006) /\ cur.state = U32(3007)
    /\ run_fired = 1
    /\ result.event = "None"

\* C4: a successful poll without a gamestate transition on which state
\* enters a split range, other than state 3006 outside room (115, 100),
\* reports that range's event with the decoded time; 3005 -> 3006 in room
\* (115, 100) reports Verdigris.
C4_EdgeEntry ==
    /\ \A i \in 1..Len(SPLITS) :
        (Succeeded /\ NoTransition /\ Entered(i) /\ ~Transient3006)
            => (result.event = SPLITS[i].event /\ result.time = DecodedTime)
    /\ (/\ Succeeded /\ NoTransition
        /\ old.state = U32(3005) /\ cur.state = U32(3006)
        /\ cur.room = <<U32(115), U32(100)>>)
            => result.event = "Verdigris"

\* 3005 -> 3006 in room (115, 100)
C4_Witness ==
    /\ Succeeded /\ NoTransition
    /\ old.state = U32(3005) /\ cur.state = U32(3006)
    /\ cur.room = <<U32(115), U32(100)>>
    /\ result.event = "Verdigris"
    /\ result.time = DecodedTime /\ result.time # Duration_ZERO

\* C5: a successful poll that decodes state 3006 outside room (115, 100)
\* and reaches split matching reports no event, whatever previous.state
\* is; no such poll reports Verdigris.
C5_Transient3006 ==
    (Succeeded /\ Transient3006) =>
        /\ NoTransition => result.event = "None"
        /\ result.event # "Verdigris"

\* 3005 -> 3006 in room (115, 99)
C5_Witness ==
    /\ Succeeded /\ NoTransition
    /\ old.state = U32(3005) /\ cur.state = U32(3006)
    /\ cur.room = <<U32(115), U32(99)>>
    /\ result.event = "None"

\* C6 as stated: whenever state enters a split range on a poll, exactly one
\* event of that range is reported in the run of polls that follows inside
\* the range: never two, and one by the time state leaves the range.
C6_OncePerEntry ==
    [][/\ run_fired' <= 1
       /\ (/\ result'.kind = "Ok"
           /\ run_entry
           /\ HistRangeOf(cur) # 0
           /\ HistRangeOf(cur') # HistRangeOf(cur)) => run_fired = 1]_vars

\* C6 as amended: the event of a range is reported at most once per run of
\* polls inside the range and only on the poll at which state enters it;
\* that poll reports it exactly when it is neither a gamestate transition
\* nor state 3006 outside room (115, 100).
C6_AtMostOncePerEntry ==
    /\ run_fired <= 1
    /\ \A i \in 1..Len(SPLITS) :
        /\ (Succeeded /\ Entered(i)) =>
              (result.event = SPLITS[i].event <=> (NoTransition /\ ~Transient3006))
        /\ (Succeeded /\ ~Entered(i)) => result.event # SPLITS[i].event

\* state entered Verdigris as 3006 outside the room, moved on to 3007, and
\* Verdigris was never reported
C6_Witness ==
    /\ Succeeded
    /\ old.state = U32(3006) /\ cur.state = U32(3007)
    /\ run_entry /\ run_fired = 0
    /\ result.event = "None"

\* C7: a poll returns one event at most; a gamestate transition that
\* coincides with state entering a split range, or with state 3006 outside
\* room (115, 100), is reported as NewGame or Reset alone.
C7_TransitionFirst ==
    /\ result.event \in {"None"} \cup TransitionEvents \cup SplitEvents
    /\ (Succeeded /\ TransitionIn /\ ((\E i \in 1..Len(SPLITS) : Entered(i)) \/ Transient3006))
            => result.event = "NewGame"
    /\ (Succeeded /\ TransitionOut /\ ((\E i \in 1..Len(SPLITS) : Entered(i)) \/ Transient3006))
            => result.event = "Reset"

\* gamestate 7 -> 0 on the poll that takes state 3005 -> 3006 in the room
C7_Witness ==
    /\ Succeeded
    /\ old.gamestate = U32(7) /\ cur.gamestate = U32(0)
    /\ old.state = U32(3005) /\ cur.state = U32(3006)
    /\ cur.room = <<U32(115), U32(100)>>
    /\ result.event = "NewGame"

\* C8: every call of update either fails and leaves previous and current as
\* they were, or installs the decoded snapshot as current and returns an
\* Update.
C8_AllOrNothing ==
    [][result'.kind # "none" =>
          \/ (result'.kind = "Err" /\ old' = old /\ cur' = cur)
          \/ (result'.kind = "Ok" /\ cur' = StateOf(game') /\ old' \in {cur, cur'})]_vars

\* C9 as stated: the first successful poll after attach reports neither
\* NewGame nor Reset.
C9_FirstPollNoTransition ==
    (Succeeded /\ phase \in {"first_read", "first_poll"})
        => result.event \notin TransitionEvents

\* C9 as amended: the first successful update of a session reports neither
\* NewGame nor Reset; where attach has made that update, the first poll
\* after it reports one only if gamestate is in PLAYING in one of the two
\* reads and outside it in the other.
C9_FirstUpdateNoTransition ==
    [][/\ (phase = "fresh" /\ result'.kind = "Ok")
            => result'.event \notin TransitionEvents
       /\ (phase = "attach_read" /\ phase' = "first_poll"
                /\ result'.event \in TransitionEvents)
            => ((cur.gamestate \in PLAYING) # (cur'.gamestate \in PLAYING))]_vars

\* attached to a process in gamestate 0; the first poll finds gamestate 0
\* again and reports no transition
C9_Witness ==
    /\ Succeeded
    /\ phase = "first_poll"
    /\ old.gamestate = U32(0) /\ cur.gamestate = U32(0)
    /\ result.event \notin TransitionEvents

\* C10: the first successful update of a session sets previous and current
\* to the decoded snapshot; every later one sets previous to what current
\* was and current to the decoded snapshot.
C10_HistoryUpdate ==
    [][result'.kind = "Ok" =>
          IF phase = "fresh"
          THEN old' = StateOf(game') /\ cur' = StateOf(game')
          ELSE old' = cur /\ cur' = StateOf(game')]_vars

----------------------------------------------------------------------------
\* C11: in every state reached after the first successful update of a
\* session, previous and current are not both the sentinel snapshot.
C11_NeverBothSentinel ==
    phase # "fresh" => ~(old = State_new /\ cur = State_new)

----------------------------------------------------------------------------
(* The timer conversion, claims C12 and C13 *)

\* hours*3600 + minutes*60 + seconds of the decoded timer
WholeSeconds == U64From(game.hours) * 3600 + U64From(game.minutes) * 60 + U64From(game.seconds)

\* secs seconds plus k * (1_000_000_000 / 30) nanoseconds as a Duration, for
\* k below 2^16: k * 33_333_333 = (k / 30) * 999_999_990 + (k % 30) * 33_333_333
WithFrames(secs, k, ns) ==
    IF ns >= 0
    THEN [secs |-> secs + (k \div 30), nanos |-> ns]
    ELSE [secs |-> secs + (k \div 30) - 1, nanos |-> ns + NANOS_PER_SEC]

ExactDuration(secs, k) ==
    WithFrames(secs, k, (k % 30) * (NANOS_PER_SEC \div FRAME_RATE) - 10 * (k \div 30))

\* frames is at most 128, the largest count whose product with 33_333_333
\* fits a u32
ProductFits == game.frames[1] = 0 /\ game.frames[2] <= 128

TimerIs(f, s, m, h) ==
    /\ game.frames = U32(f) /\ game.seconds = U32(s)
    /\ game.minutes = U32(m) /\ game.hours = U32(h)

\* C12 as stated: the conversion gives hours*3600 + minutes*60 + seconds
\* whole seconds plus frames * (1_000_000_000 / 30) nanoseconds, and
\* (frames=15, seconds=2, minutes=1, hours=0) gives 62 s + 500,000,000 ns.
C12_TimerConversion ==
    pc = "converted" =>
        /\ ProductFits => result.time = ExactDuration(WholeSeconds, game.frames[2])
        /\ TimerIs(15, 2, 1, 0) => result.time = [secs |-> 62, nanos |-> 500000000]

\* C12 as amended: the conversion gives hours*3600 + minutes*60 + seconds
\* whole seconds plus frames * 33_333_333 nanoseconds for every frames up to
\* 128, and (frames=15, seconds=2, minutes=1, hours=0) gives
\* 62 s + 499,999,995 ns; beyond 128 frames only a build that wraps gives a
\* Duration, and 129 frames give 5,032,661 ns.
C12_TimerConversionTruncated ==
    pc = "converted" =>
        /\ ProductFits => result.time = ExactDuration(WholeSeconds, game.frames[2])
        /\ TimerIs(15, 2, 1, 0) => result.time = [secs |-> 62, nanos |-> 499999995]
        /\ ~ProductFits => ~overflow_checks
        /\ TimerIs(129, 0, 0, 0) => result.time = [secs |-> 0, nanos |-> 5032661]

\* the timer of the example, converted
C12_Witness ==
    /\ pc = "converted"
    /\ TimerIs(15, 2, 1, 0)
    /\ result.time = [secs |-> 62, nanos |-> 499999995]

\* C13: for every frames, seconds, minutes and hours the conversion gives a
\* Duration without arithmetic overflow: the u32 product 33_333_333 * frames
\* fits 32 bits and the conversion neither aborts nor wraps.
C13_NoOverflow ==
    pc # "decoded" =>
        /\ pc = "converted"
        /\ ~MulU32(U32(NANOS_PER_SEC \div FRAME_RATE), game.frames).overflow

----------------------------------------------------------------------------
(* The scan, claims C14, C15, C16, C18 and C19 *)

\* the scan ran: the handle was opened and attach has returned
Scanned == pc \notin {"start", "no_handle"}

\* attach returned a Game
GameBuilt == pc = "attached"

\* the signatures of the memory that lie wholly inside the bytes of chunk k
WhollyIn(k) ==
    {s \in memory.sigs :
        ChunkOffset(k) <= s.pos /\ s.pos + Len(PATTERN) <= ChunkOffset(k) + BUF_LEN}

\* those the pattern matches
MatchedIn(k) == {s \in WhollyIn(k) : MatchesAt(Signature(s.wild))}

\* a chunk that is read and holds a match
Hit(k) == memory.readable[k] /\ MatchedIn(k) # {}

\* the first such chunk, and the offset from SCAN_START of its first match
FirstHit == CHOOSE k \in 0..(NumChunks - 1) : Hit(k) /\ \A j \in 0..(k - 1) : ~Hit(j)

FirstMatch == CHOOSE p \in {s.pos : s \in MatchedIn(FirstHit)} :
                  \A s \in MatchedIn(FirstHit) : p <= s.pos

\* C14: the chunks are 4096 bytes long and start 4056 bytes apart, so a
\* 31-byte signature starting anywhere in the range lies wholly inside one
\* chunk at least, and with every chunk readable the scan finds a
\* signature that lies across the end of a chunk's step.
C14_OverlapCovers ==
    /\ Len(PATTERN) - 1 <= OVERLAP
    /\ (PAGE - 1) + Len(PATTERN)
           <= ((PAGE - 1) \div (BUF_LEN - OVERLAP)) * (BUF_LEN - OVERLAP) + BUF_LEN
    /\ \A s \in memory.sigs : \E k \in 0..(NumChunks - 1) : s \in WhollyIn(k)
    /\ (/\ Scanned
        /\ memory.readable = AllReadable
        /\ \E s \in memory.sigs : MatchesAt(Signature(s.wild)))
            => pc # "not_found"

\* one signature, 16 bytes before the second chunk starts, found in the first
C14_Witness ==
    /\ GameBuilt
    /\ memory.readable = AllReadable
    /\ memory.sigs = {Sig(4040, WILD)}
    /\ game_object_addr = AddrAdd(SCAN_START, 4040 - OFFSET_GAMETIME)

\* C15: when the scan finds the signature, the Game's object address is
\* chunk_start + (match_start rounded down to a multiple of 8) - 0xb8 for
\* the first chunk, in increasing address order, that is read and holds a
\* match, and the leftmost match of that chunk; matches of later chunks and
\* later matches of that chunk play no part.
C15_FirstMatchAddress ==
    GameBuilt =>
        /\ \E k \in 0..(NumChunks - 1) : Hit(k)
        /\ game_object_addr =
               AddrAdd(ChunkAddress(FirstHit),
                       (FirstMatch - ChunkOffset(FirstHit))
                           - ((FirstMatch - ChunkOffset(FirstHit)) % 8)
                           - OFFSET_GAMETIME)

\* two signatures inside the first chunk, 13 and 4026 bytes in: the
\* address comes from the one 13 bytes in, rounded down to 8
C15_Witness ==
    /\ GameBuilt
    /\ memory.readable = AllReadable
    /\ memory.sigs = {Sig(13, WILD), Sig(4026, WILD)}
    /\ game_object_addr = AddrAdd(SCAN_START, 8 - OFFSET_GAMETIME)

\* C16: a chunk whose read fails is skipped and the scan goes on; attach
\* fails with "failed to find game object" exactly when no chunk of the
\* range was both read and matched, and then no Game exists.
C16_SkipAndExhaust ==
    Scanned =>
        /\ pc = "not_found" <=> \A k \in 0..(NumChunks - 1) : ~Hit(k)
        /\ pc = "not_found" =>
              /\ game_object_addr = <<0, 0>>
              /\ old = State_new /\ cur = State_new
              /\ result.kind = "none" /\ phase = "fresh"

\* the first chunk cannot be read; the signature is found in the second
C16_Witness ==
    /\ GameBuilt
    /\ ~memory.readable[0] /\ memory.readable[1]
    /\ memory.sigs = {Sig(ChunkOffset(1) + 13, WILD)}
    /\ game_object_addr = AddrAdd(ChunkAddress(1), 8 - OFFSET_GAMETIME)

\* C18: the byte between the 18 zero bytes and "nowhere" may be any of
\* 0..255: a readable chunk holding "00:00", 18 zero bytes, that byte and
\* "nowhere" is reported as a match.
C18_WildcardAnyByte ==
    (/\ Scanned
     /\ memory.readable = AllReadable
     /\ \E k \in 0..(NumChunks - 1) : WhollyIn(k) # {})
        => pc # "not_found"

\* the absolute offset p rounded down to a multiple of 8
RoundDown8(p) == p - (p % 8)

\* C19: every chunk start is a multiple of 8, so rounding the offset of the
\* match inside the chunk gives the address of the match rounded down to an
\* 8-byte boundary, and the address less 0xb8 is not below zero.
C19_AlignedChunks ==
    /\ (BUF_LEN - OVERLAP) % 8 = 0 /\ PAGE % 8 = 0 /\ SCAN_START[2] % 8 = 0
    /\ \A k \in 0..(NumChunks - 1) : ChunkAddress(k)[2] % 8 = 0
    /\ GameBuilt =>
          /\ game_object_addr = AddrAdd(SCAN_START, RoundDown8(FirstMatch) - OFFSET_GAMETIME)
          /\ AddrLt(<<0, 0>>, game_object_addr)

\* a match 13 bytes into the second chunk
C19_Witness ==
    /\ GameBuilt
    /\ memory.readable = AllReadable
    /\ memory.sigs = {Sig(ChunkOffset(1) + 13, WILD)}
    /\ game_object_addr = AddrAdd(SCAN_START, ChunkOffset(1) + 8 - OFFSET_GAMETIME)

----------------------------------------------------------------------------
\* C20: in a session whose successful polls never decode a state field of
\* u32::MAX, NewGame and Reset alternate: of the NewGame and Reset events
\* reported, no two in a row are the same.
C20_Alternate ==
    Len(transitions) = 2 => transitions[1] # transitions[2]

\* a NewGame reported after a Reset
C20_Witness ==
    /\ Succeeded
    /\ result.event = "NewGame"
    /\ transitions = <<"Reset", "NewGame">>

----------------------------------------------------------------------------
(* The client threads, claim C17 *)

\* the number a sequence of decimal digits writes
RECURSIVE Value(_)
Value(d) == IF d = <<>> THEN 0 ELSE Value(SubSeq(d, 1, Len(d) - 1)) * 10 + d[Len(d)]

\* m is the setgametime command of the time t: "setgametime <secs>." and
\* nine digits of nanoseconds
IsTimeOf(m, t) ==
    /\ m.command = "setgametime"
    /\ Value(m.secs) = t.secs
    /\ Len(m.nanos) = 9 /\ Value(m.nanos) = t.nanos

\* m is the command of the event e
IsCommandOf(m, e) ==
    /\ m.secs = <<>> /\ m.nanos = <<>>
    /\ e = "NewGame" => m.command = "start"
    /\ e \in SplitEvents => m.command = "split"
    /\ e = "Reset" => m.command = "reset"
    /\ e \in {"NewGame", "Reset"} \cup SplitEvents

\* what a thread has to send for the Update u
Complete(sent, u) ==
    /\ Len(sent) = IF u.event = "None" THEN 1 ELSE 2
    /\ IsTimeOf(sent[1], u.time)
    /\ u.event # "None" => IsCommandOf(sent[2], u.event)

\* C17: for every Update a client thread takes from the channel it sends
\* the setgametime command of the Update's time first and then, exactly if
\* the Update carries an event, one command more: start for NewGame, split
\* for the eight split events, reset for Reset.  Nothing is sent before the
\* setgametime command, and a thread whose write fails stops there.
C17_ClientProtocol ==
    \A c \in DOMAIN clients :
        /\ clients[c].pc = "time" => clients[c].sent = <<>>
        /\ clients[c].pc = "event" =>
              /\ clients[c].update.event # "None"
              /\ Len(clients[c].sent) = 1
              /\ IsTimeOf(clients[c].sent[1], clients[c].update.time)
        /\ (clients[c].pc = "recv" /\ clients[c].sent # <<>>) =>
              Complete(clients[c].sent, clients[c].update)
        /\ (clients[c].pc = "closed" /\ clients[c].sent # <<>>) =>
              /\ Len(clients[c].sent) = 1
              /\ IsTimeOf(clients[c].sent[1], clients[c].update.time)

\* a thread has sent "setgametime 62.499999995" and "split" for Verdigris
C17_Witness ==
    \E c \in DOMAIN clients :
        /\ clients[c].pc = "recv"
        /\ clients[c].update.event = "Verdigris"
        /\ clients[c].sent = <<Text("setgametime", <<6, 2>>, <<4, 9, 9, 9, 9, 9, 9, 9, 5>>),
                               Text("split", <<>>, <<>>)>>

\* --------------------------------------------------------------------------
\* C21: the polling loop and the channel
\* --------------------------------------------------------------------------

\* no iteration of the loop waits for the channel: whatever the read
\* returns, the iteration can take place
NonBlocking ==
    pc = "attached" /\ polls < MaxPolls =>
        \A read \in MainReads :
            ENABLED MainPolled(UpdateOutcome(old, cur, read, overflow_checks), read)

\* the Updates in the channel lie in the order of the iterations that made
\* them
InOrder ==
    \A i, j \in 1..Len(channel) : i < j => channel[i].serial < channel[j].serial

\* the Update of the iteration that has just ended
Latest == Buffered([time |-> result.time, event |-> result.event], polls)

\* an iteration that produced an Update: the Update goes to the end of the
\* channel, or nowhere when CHANNEL_CAP Updates are buffered, and the loop
\* goes on
Offered ==
    polls' = polls + 1 /\ result'.kind = "Ok" =>
        /\ pc' = "attached"
        /\ UNCHANGED clients
        /\ channel' = IF Len(channel) < CHANNEL_CAP
                      THEN Append(channel, Latest')
                      ELSE channel

\* a thread that receives gets the oldest Update buffered, which is newer
\* than every Update received before
Delivered ==
    \A c \in DOMAIN clients :
        clients'[c].taken # clients[c].taken =>
            /\ channel # <<>>
            /\ clients'[c].update = Head(channel)
            /\ clients'[c].taken = clients[c].taken \cup {Head(channel).serial}
            /\ channel' = Tail(channel)
            /\ polls' = polls
            /\ \A d \in DOMAIN clients : \A s \in clients[d].taken :
                   s < Head(channel).serial

\* C21: the polling loop never waits on delivery: each Update is offered to
\* the channel of capacity 10 without blocking; when 10 Updates are buffered
\* the new Update, with any event it carries, is discarded and polling goes
\* on; buffered Updates are delivered in the order they were produced
C21_NonBlockingFifo ==
    /\ [](CHANNEL_CAP = 10 /\ Len(channel) <= CHANNEL_CAP /\ NonBlocking /\ InOrder)
    /\ [][Offered /\ Delivered]_vars

\* the channel is full, a client has received an Update, and the Update of
\* the last iteration, which carries an event, is not in the channel
C21_Witness ==
    /\ pc = "attached"
    /\ Len(channel) = CHANNEL_CAP
    /\ result.kind = "Ok"
    /\ result.event # "None"
    /\ polls > 0
    /\ \A i \in 1..Len(channel) : channel[i].serial < polls
    /\ \E c \in DOMAIN clients : clients[c].taken # {}

\* --------------------------------------------------------------------------
\* C22: one receiver per Update
\* --------------------------------------------------------------------------

\* the thread has written a message for the Update it holds
Writing(c) == clients[c].sent # <<>>

\* C22: each Update placed on the channel is received by at most one client
\* thread: no two threads have received the Update of the same iteration, an
\* Update that a thread has received is no longer in the channel, and two
\* threads that have written messages wrote them for different Updates
C22_OneReceiver ==
    \A c, d \in DOMAIN clients :
        /\ \A i \in 1..Len(channel) : channel[i].serial \notin clients[c].taken
        /\ clients[c].pc \in {"time", "event"} => clients[c].update.serial \in clients[c].taken
        /\ c # d =>
            /\ clients[c].taken \cap clients[d].taken = {}
            /\ Writing(c) /\ Writing(d) =>
                   clients[c].update.serial # clients[d].update.serial

\* two threads are connected at once, each has received an Update, and one
\* has written the command of an event while the other has written the time
\* of its own Update
C22_Witness ==
    \E c, d \in DOMAIN clients :
        /\ c # d
        /\ clients[c].pc \in {"recv", "time", "event"}
        /\ clients[d].pc \in {"recv", "time", "event"}
        /\ clients[c].taken # {}
        /\ clients[d].taken # {}
        /\ Len(clients[c].sent) = 2
        /\ Writing(d)

\* --------------------------------------------------------------------------
\* C23: the ranges of SPLITS
\* --------------------------------------------------------------------------

\* no value lies in both range i and range j
Apart(i, j) == SPLITS[i].hi < SPLITS[j].lo \/ SPLITS[j].hi < SPLITS[i].lo

\* the entries of the table that a poll from o to c enters
EnteredBy(o, c) ==
    {i \in 1..Len(SPLITS) : Contains(SPLITS[i], c.state) /\ ~Contains(SPLITS[i], o.state)}

\* the table searched from its last entry to its first
RECURSIVE FindSplitBackwards(_, _, _)
FindSplitBackwards(i, o, c) ==
    IF i < 1 THEN "None"
    ELSE IF i \in EnteredBy(o, c) THEN SPLITS[i].event
    ELSE FindSplitBackwards(i - 1, o, c)

\* C23: the eight ranges of SPLITS are pairwise disjoint, so at most one of
\* them contains a state value, a poll enters at most one of them, and the
\* event found does not depend on the order of the table: the search from the
\* last entry finds what the search from the first finds, which is what a
\* poll that reaches split matching reports
C23_DisjointRanges ==
    /\ Len(SPLITS) = 8
    /\ \A i, j \in 1..Len(SPLITS) :
        /\ SPLITS[i].lo <= SPLITS[i].hi
        /\ i # j => Apart(i, j)
        /\ Contains(SPLITS[i], cur.state) /\ Contains(SPLITS[j], cur.state) => i = j
        /\ Contains(SPLITS[i], old.state) /\ Contains(SPLITS[j], old.state) => i = j
    /\ Cardinality(EnteredBy(old, cur)) <= 1
    /\ FindSplitBackwards(Len(SPLITS), old, cur) = FindSplit(1, old, cur)
    /\ (Succeeded /\ NoTransition /\ ~Transient3006) =>
           result.event = FindSplitBackwards(Len(SPLITS), old, cur)

\* a poll that leaves the first range of the table for the fifth and reports
\* the fifth's event
C23_Witness ==
    /\ Succeeded /\ NoTransition
    /\ Contains(SPLITS[1], old.state)
    /\ EnteredBy(old, cur) = {5}
    /\ result.event = SPLITS[5].event

====
